---- MODULE Spec2Model ----
(***************************************************************************)
(* Model of NotificationService (src/notification.py): the chunking of a   *)
(* long text into byte-bounded messages, their pagination and sequential   *)
(* delivery to the WeChat webhook (send_to_wechat, _send_single_message),  *)
(* and the batch dispatch of a summary plus one message per stock          *)
(* (send_batch_notifications).                                             *)
(*                                                                         *)
(* A Python str is a run-length encoded sequence of characters: a sequence *)
(* of runs [c |-> character, n |-> repetitions], n >= 1, in which adjacent *)
(* runs have different characters, so that two strings are equal exactly   *)
(* when their representations are equal.                                   *)
(***************************************************************************)
EXTENDS Integers, Sequences, FiniteSets, TLC

(***************************************************************************)
(* Characters and strings                                                  *)
(***************************************************************************)
NL == "\n"
CH_ASCII == "a"
CH_2BYTE == "U+00E9"
CH_3BYTE == "U+4E2D"
CH_4BYTE == "U+1F600"
CH_JIE == "U+622A"
CH_DUAN == "U+65AD"

\* number of bytes of the UTF-8 encoding of one character
Utf8Width(c) ==
  CASE c = CH_2BYTE -> 2
    [] c \in {CH_3BYTE, CH_JIE, CH_DUAN} -> 3
    [] c = CH_4BYTE -> 4
    [] OTHER -> 1

\* the string made of n copies of character c
Rep(c, n) == IF n <= 0 THEN << >> ELSE << [c |-> c, n |-> n] >>

\* a + b on strings
Concat(a, b) ==
  IF a = << >> THEN b
  ELSE IF b = << >> THEN a
  ELSE IF a[Len(a)].c = b[1].c
       THEN SubSeq(a, 1, Len(a) - 1)
            \o << [c |-> b[1].c, n |-> a[Len(a)].n + b[1].n] >>
            \o Tail(b)
       ELSE a \o b

\* len(s): number of characters
RECURSIVE StrLen(_)
StrLen(s) == IF s = << >> THEN 0 ELSE Head(s).n + StrLen(Tail(s))

\* len(s.encode('utf-8')): number of bytes
RECURSIVE ByteLen(_)
ByteLen(s) ==
  IF s = << >> THEN 0 ELSE Utf8Width(Head(s).c) * Head(s).n + ByteLen(Tail(s))

\* s[:k]
RECURSIVE Take(_, _)
Take(s, k) ==
  IF k <= 0 \/ s = << >> THEN << >>
  ELSE IF Head(s).n <= k
       THEN << Head(s) >> \o Take(Tail(s), k - Head(s).n)
       ELSE << [c |-> Head(s).c, n |-> k] >>

\* s[k:]
RECURSIVE Drop(_, _)
Drop(s, k) ==
  IF k <= 0 \/ s = << >> THEN s
  ELSE IF Head(s).n <= k
       THEN Drop(Tail(s), k - Head(s).n)
       ELSE << [c |-> Head(s).c, n |-> Head(s).n - k] >> \o Tail(s)

\* s[j:k]
Slice(s, j, k) == Take(Drop(s, j), k - j)

\* n copies of the empty string, as a list
EmptyLines(n) == [x \in 1..n |-> << >>]

\* s.split('\n') continued: cur is the line being read, acc the lines read
RECURSIVE SplitAcc(_, _, _)
SplitAcc(s, cur, acc) ==
  IF s = << >> THEN Append(acc, cur)
  ELSE IF Head(s).c = NL
       THEN SplitAcc(Tail(s), << >>,
                     Append(acc, cur) \o EmptyLines(Head(s).n - 1))
       ELSE SplitAcc(Tail(s), Append(cur, Head(s)), acc)

\* s.split('\n')
Split(s) == SplitAcc(s, << >>, << >>)

\* "\n".join(list)
RECURSIVE Join(_)
Join(list) ==
  IF list = << >> THEN << >>
  ELSE IF Len(list) = 1 THEN list[1]
  ELSE Concat(Concat(list[1], Rep(NL, 1)), Join(Tail(list)))

\* str(n) for n >= 0
DigitChar(d) == << "0", "1", "2", "3", "4", "5", "6", "7", "8", "9" >>[d + 1]
RECURSIVE Str(_)
Str(n) ==
  IF n < 10 THEN Rep(DigitChar(n), 1)
  ELSE Concat(Str(n \div 10), Rep(DigitChar(n % 10), 1))

(***************************************************************************)
(* Program constants                                                       *)
(***************************************************************************)
MAX_BYTE_LENGTH == 2000
WECHAT_BYTE_LIMIT == 4096
TRUNCATE_CHARS == 1000
\* the character ceiling for 3 bytes a character, as the comment assumes
char_limit_Div3 == MAX_BYTE_LENGTH \div 3

char_limit == MAX_BYTE_LENGTH \div 4

(***************************************************************************)
(* Bounds of the model                                                     *)
(***************************************************************************)
MaxLines == 3
MaxResults == 2

\* the lines the contents are made of
LineShapes ==
  { << >>,
    Rep(CH_ASCII, 999),
    Rep(CH_ASCII, 1000),
    Rep(CH_ASCII, 1999),
    Rep(CH_ASCII, 2000),
    Rep(CH_3BYTE, 667),
    Rep(CH_4BYTE, 501) }

\* the contents handed to send_to_wechat: 1..MaxLines lines joined by "\n"
Contents ==
  { Join(ls) : ls \in UNION { [1..k -> LineShapes] : k \in 1..MaxLines } }

\* what the webhook call can produce: an exception of requests.post, or a
\* response with a status code and a body
Bodies == { "{errcode:0}", "{errcode:93000}", "{}", "<html>" }
Responses ==
  { [exc |-> TRUE, status |-> 0, body |-> "" ] }
  \cup [exc : {FALSE}, status : {200, 201, 500}, body : Bodies]

\* the analysis results a batch is made of
ResultShapes ==
  { [code |-> "A", sentiment_score |-> 80, analysis_summary |-> Rep(CH_3BYTE, 10)],
    [code |-> "B", sentiment_score |-> 80, analysis_summary |-> Rep(CH_3BYTE, 10)],
    [code |-> "A", sentiment_score |-> 50, analysis_summary |-> Rep(CH_3BYTE, 10)],
    [code |-> "B", sentiment_score |-> 50,
     analysis_summary |-> Join(<< Rep(CH_ASCII, 1000), Rep(CH_ASCII, 1000) >>)] }
ResultLists == UNION { [1..k -> ResultShapes] : k \in 0..MaxResults }

(***************************************************************************)
(* Pure functions of the program                                           *)
(***************************************************************************)
\* the size test with < in place of <=
FitsInOne_Strict(c) == ByteLen(c) < MAX_BYTE_LENGTH

\* len(content_bytes) <= MAX_BYTE_LENGTH: the content goes out as one message
FitsInOne(c) == ByteLen(c) <= MAX_BYTE_LENGTH

\* line_size measured in characters instead of bytes
line_size_InChars(line) == StrLen(Concat(line, Rep(NL, 1)))

\* line_size: bytes of the line with its line break
line_size(line) == ByteLen(Concat(line, Rep(NL, 1)))

\* slices that stop one character short: line[j:j+char_limit-1]
ForcedSlices_DropsChar(line) ==
  [k \in 1..((StrLen(line) + char_limit - 1) \div char_limit) |->
     Slice(line, (k - 1) * char_limit, k * char_limit - 1)]

\* the slices of an oversized line: line[j:j+char_limit] for j in
\* range(0, len(line), char_limit)
ForcedSlices(line) ==
  [k \in 1..((StrLen(line) + char_limit - 1) \div char_limit) |->
     Slice(line, (k - 1) * char_limit, k * char_limit)]

\* the marker numbered with the 0-based loop index
Marked_ZeroBased(i, total, chunk) ==
  Concat(Rep("(", 1),
  Concat(Str(i),
  Concat(Rep("/", 1),
  Concat(Str(total),
  Concat(Rep(")", 1),
  Concat(Rep(NL, 1), chunk))))))

\* f"({i+1}/{total_chunks})\n{chunk}", i the 0-based loop index
Marked(i, total, chunk) ==
  Concat(Rep("(", 1),
  Concat(Str(i + 1),
  Concat(Rep("/", 1),
  Concat(Str(total),
  Concat(Rep(")", 1),
  Concat(Rep(NL, 1), chunk))))))

\* "\n...(截断)"
TruncationNotice ==
  << [c |-> NL, n |-> 1], [c |-> ".", n |-> 3], [c |-> "(", n |-> 1],
     [c |-> CH_JIE, n |-> 1], [c |-> CH_DUAN, n |-> 1], [c |-> ")", n |-> 1] >>

\* the truncation test made against the chunking budget
Paginate_TruncatesOverBudget(i, total, chunk) ==
  LET p == IF total > 1 THEN Marked(i, total, chunk) ELSE chunk
  IN IF ByteLen(p) > MAX_BYTE_LENGTH
     THEN Concat(Take(p, TRUNCATE_CHARS), TruncationNotice)
     ELSE p

\* paginated_content of the i-th chunk (0-based), truncation included
Paginate(i, total, chunk) ==
  LET p == IF total > 1 THEN Marked(i, total, chunk) ELSE chunk
  IN IF ByteLen(p) > WECHAT_BYTE_LIMIT
     THEN Concat(Take(p, TRUNCATE_CHARS), TruncationNotice)
     ELSE p

\* _send_single_message that takes any parsed answer of status 200 as a
\* success, whatever its errcode
SendSingleMessage_IgnoresErrcode(resp) ==
  IF resp.exc THEN "Raise"
  ELSE IF resp.status = 200
       THEN IF resp.body = "<html>" THEN "Raise" ELSE "True"
       ELSE "False"

\* _send_single_message: "True", "False", or "Raise" when requests.post or
\* response.json() raises
SendSingleMessage(resp) ==
  IF resp.exc THEN "Raise"
  ELSE IF resp.status = 200
       THEN IF resp.body = "<html>" THEN "Raise"
            ELSE IF resp.body = "{errcode:0}" THEN "True" ELSE "False"
       ELSE "False"

\* the chunk loop without its except clause: the exception leaves the call
AfterChunkTry_Propagates(r) == IF r = "Raise" THEN "raised" ELSE "sleep"

\* the chunk loop left at the first post that is not a success
AfterChunkTry_BreaksOnFailure(r) ==
  IF r = "Raise" THEN "send" ELSE IF r = "False" THEN "returned" ELSE "sleep"

\* where control goes after the try block of the chunk loop: past the sleep
\* to the next iteration when the except clause caught an exception
AfterChunkTry(r) == IF r = "Raise" THEN "send" ELSE "sleep"

\* where control goes after the try block of the single-message path
AfterSingleTry(r) == "returned"

\* the value the single-message path returns
SingleResult(r) == IF r = "True" THEN "True" ELSE "False"

\* an insertion that puts a result before the earlier results of equal score
RECURSIVE InsertSorted_TiesReversed(_, _)
InsertSorted_TiesReversed(r, sorted) ==
  IF sorted = << >> THEN << r >>
  ELSE IF r.sentiment_score >= Head(sorted).sentiment_score
       THEN << r >> \o sorted
       ELSE << Head(sorted) >> \o InsertSorted_TiesReversed(r, Tail(sorted))

\* sorted(results, key=sentiment_score, reverse=True): stable insertion
RECURSIVE InsertSorted(_, _)
InsertSorted(r, sorted) ==
  IF sorted = << >> THEN << r >>
  ELSE IF r.sentiment_score > Head(sorted).sentiment_score
       THEN << r >> \o sorted
       ELSE << Head(sorted) >> \o InsertSorted(r, Tail(sorted))

RECURSIVE SortedByScore(_)
SortedByScore(results) ==
  IF results = << >> THEN << >>
  ELSE InsertSorted(results[Len(results)],
                    SortedByScore(SubSeq(results, 1, Len(results) - 1)))

\* format_wechat_summary: the header and the number of stocks analysed
format_wechat_summary(results) ==
  Join(<< Rep("#", 2), << >>, Concat(Rep(">", 1), Str(Len(results))) >>)

\* format_wechat_stock_msg: the title line with the stock code, then the
\* one-sentence conclusion and the score
format_wechat_stock_msg(result) ==
  Join(<< Concat(Rep("#", 3), Rep(result.code, 1)), << >>,
          result.analysis_summary, << >>,
          Str(result.sentiment_score) >>)

(***************************************************************************)
(* State                                                                   *)
(***************************************************************************)
VARIABLES
  webhook_url,          \* self._webhook_url: "" when not configured
  pc,                   \* position of send_to_wechat
  content,              \* its argument
  lines,                \* content.split('\n')
  li,                   \* 1-based index of the line the for loop reads next
  chunks,
  current_chunk_lines,
  current_chunk_size,
  i,                    \* 0-based index of the chunk the send loop is at
  success_count,
  total_chunks,
  ret,                  \* value returned by send_to_wechat
  forced,               \* history: the forced-slice branch was taken
  origin,               \* history: for each chunk, the lines it was made of
                        \* (first..last) or, for a slice, its line and the
                        \* character offset j it starts at
  sent,                 \* history: the texts posted to the webhook, in order
  attempts,             \* history: the 1-based chunk numbers posted, in order
  nDelivered,           \* history: posts answered by status 200, errcode 0
  anyRaised,            \* history: some post or response parsing raised
  slept,                \* history: time.sleep(0.5) ran since the last post
  bpc,                  \* position of send_batch_notifications
  results,              \* its argument
  sorted_results,
  bi,                   \* 0-based index of the stock the batch loop is at
  batchRet,             \* value returned by send_batch_notifications
  dispatched,           \* history: the texts passed to send_to_wechat, each
                        \* with whether time.sleep(1) ran just before
  callRets,             \* history: what each of those calls returned
  bslept,               \* history: time.sleep(1) ran since the last call
  posted,               \* argument of a direct _send_single_message call
  response,             \* what the webhook answered to it
  single_ret            \* what that call returned, or "Raise"

wvars == << pc, content, lines, li, chunks, current_chunk_lines,
            current_chunk_size, i, success_count, total_chunks, ret,
            forced, origin, sent, attempts, nDelivered, anyRaised, slept >>
bvars == << bpc, results, sorted_results, bi, batchRet, dispatched,
            callRets, bslept >>
svars == << posted, response, single_ret >>
vars == << webhook_url, wvars, bvars, svars >>

\* is_available
is_available == webhook_url # ""

\* where a chunk joined from the pending lines comes from, li being the
\* line the loop is at
LinesOrigin(l, pending) ==
  [slice |-> FALSE, first |-> l - Len(pending), last |-> l - 1, j |-> 0]

\* where the slices of line l come from
SlicesOrigin(l, line) ==
  [k \in 1..Len(ForcedSlices(line)) |->
     [slice |-> TRUE, first |-> l, last |-> l, j |-> (k - 1) * char_limit]]

\* the answer is HTTP 200 with errcode 0
IsDelivered(resp) ==
  ~resp.exc /\ resp.status = 200 /\ resp.body = "{errcode:0}"

Init ==
  /\ webhook_url \in { "", "https://qyapi/webhook" }
  /\ pc = "idle"
  /\ content = << >>
  /\ lines = << >>
  /\ li = 1
  /\ chunks = << >>
  /\ current_chunk_lines = << >>
  /\ current_chunk_size = 0
  /\ i = 0
  /\ success_count = 0
  /\ total_chunks = 0
  /\ ret = "None"
  /\ forced = FALSE
  /\ origin = << >>
  /\ sent = << >>
  /\ attempts = << >>
  /\ nDelivered = 0
  /\ anyRaised = FALSE
  /\ slept = FALSE
  /\ bpc = "idle"
  /\ results = << >>
  /\ sorted_results = << >>
  /\ bi = 0
  /\ batchRet = [kind |-> "pending"]
  /\ dispatched = << >>
  /\ callRets = << >>
  /\ bslept = FALSE
  /\ posted = << >>
  /\ response = [exc |-> FALSE, status |-> 0, body |-> ""]
  /\ single_ret = "None"

(***************************************************************************)
(* send_to_wechat                                                          *)
(***************************************************************************)
\* entry of send_to_wechat(c): fresh locals
Enter(c) ==
  /\ pc' = "entry"
  /\ content' = c
  /\ lines' = << >>
  /\ li' = 1
  /\ chunks' = << >>
  /\ current_chunk_lines' = << >>
  /\ current_chunk_size' = 0
  /\ i' = 0
  /\ success_count' = 0
  /\ total_chunks' = 0
  /\ ret' = "None"
  /\ forced' = FALSE
  /\ origin' = << >>
  /\ sent' = << >>
  /\ attempts' = << >>
  /\ nDelivered' = 0
  /\ anyRaised' = FALSE
  /\ slept' = FALSE

\* a caller other than the batch calls send_to_wechat(content)
CallSendToWechat ==
  /\ pc = "idle" /\ bpc = "idle"
  /\ \E c \in Contents : Enter(c)
  /\ UNCHANGED << webhook_url, svars, bvars >>

\* if not self.is_available(): return False
NotAvailable ==
  /\ pc = "entry"
  /\ ~is_available
  /\ pc' = "returned"
  /\ ret' = "False"
  /\ UNCHANGED << webhook_url, svars, content, lines, li, chunks, origin,
                  current_chunk_lines,
                  current_chunk_size, i, success_count, total_chunks, forced,
                  sent, attempts, nDelivered, anyRaised, slept, bvars >>

\* the single message sent with the marker of a first chunk of one
SendWhole_Marked ==
  /\ pc = "entry"
  /\ is_available
  /\ FitsInOne(content)
  /\ \E resp \in Responses :
       LET r == SendSingleMessage(resp) IN
         /\ pc' = AfterSingleTry(r)
         /\ ret' = SingleResult(r)
         /\ sent' = Append(sent, Marked(0, 1, content))
         /\ attempts' = Append(attempts, 1)
         /\ nDelivered' = nDelivered + (IF IsDelivered(resp) THEN 1 ELSE 0)
         /\ anyRaised' = (anyRaised \/ r = "Raise")
  /\ slept' = FALSE
  /\ UNCHANGED << webhook_url, svars, content, lines, li, chunks, origin,
                  current_chunk_lines, current_chunk_size, i, success_count,
                  total_chunks, forced, bvars >>

\* the content fits: one call of _send_single_message(content) in a try
SendWhole ==
  /\ pc = "entry"
  /\ is_available
  /\ FitsInOne(content)
  /\ \E resp \in Responses :
       LET r == SendSingleMessage(resp) IN
         /\ pc' = AfterSingleTry(r)
         /\ ret' = SingleResult(r)
         /\ sent' = Append(sent, content)
         /\ attempts' = Append(attempts, 1)
         /\ nDelivered' = nDelivered + (IF IsDelivered(resp) THEN 1 ELSE 0)
         /\ anyRaised' = (anyRaised \/ r = "Raise")
  /\ slept' = FALSE
  /\ UNCHANGED << webhook_url, svars, content, lines, li, chunks, origin,
                  current_chunk_lines,
                  current_chunk_size, i, success_count, total_chunks, forced,
                  bvars >>

\* the content is too long: lines = content.split('\n')
BeginSplit ==
  /\ pc = "entry"
  /\ is_available
  /\ ~FitsInOne(content)
  /\ pc' = "split"
  /\ lines' = Split(content)
  /\ li' = 1
  /\ UNCHANGED << webhook_url, svars, content, chunks, origin,
                  current_chunk_lines,
                  current_chunk_size, i, success_count, total_chunks, ret,
                  forced, sent, attempts, nDelivered, anyRaised, slept, bvars >>

\* the oversized line cut without saving the pending lines first
ForcedSlice_KeepsPending ==
  /\ pc = "split"
  /\ li <= Len(lines)
  /\ line_size(lines[li]) > MAX_BYTE_LENGTH
  /\ chunks' = chunks \o ForcedSlices(lines[li])
  /\ origin' = origin \o SlicesOrigin(li, lines[li])
  /\ forced' = TRUE
  /\ li' = li + 1
  /\ UNCHANGED << webhook_url, svars, pc, content, lines, current_chunk_lines,
                  current_chunk_size, i, success_count, total_chunks, ret,
                  sent, attempts, nDelivered, anyRaised, slept, bvars >>

\* a line that alone exceeds the limit: flush the pending lines, then cut
\* the line every char_limit characters
ForcedSlice ==
  /\ pc = "split"
  /\ li <= Len(lines)
  /\ line_size(lines[li]) > MAX_BYTE_LENGTH
  /\ chunks' = (IF current_chunk_lines # << >>
                THEN Append(chunks, Join(current_chunk_lines))
                ELSE chunks) \o ForcedSlices(lines[li])
  /\ origin' = (IF current_chunk_lines # << >>
                THEN Append(origin, LinesOrigin(li, current_chunk_lines))
                ELSE origin) \o SlicesOrigin(li, lines[li])
  /\ current_chunk_lines' = (IF current_chunk_lines # << >>
                             THEN << >> ELSE current_chunk_lines)
  /\ current_chunk_size' = (IF current_chunk_lines # << >>
                            THEN 0 ELSE current_chunk_size)
  /\ forced' = TRUE
  /\ li' = li + 1
  /\ UNCHANGED << webhook_url, svars, pc, content, lines, i, success_count,
                  total_chunks, ret, sent, attempts, nDelivered, anyRaised,
                  slept, bvars >>

\* the new chunk opened empty, the line that did not fit lost
FlushChunk_LosesLine ==
  /\ pc = "split"
  /\ li <= Len(lines)
  /\ ~(line_size(lines[li]) > MAX_BYTE_LENGTH)
  /\ current_chunk_size + line_size(lines[li]) > MAX_BYTE_LENGTH
  /\ chunks' = Append(chunks, Join(current_chunk_lines))
  /\ origin' = Append(origin, LinesOrigin(li, current_chunk_lines))
  /\ current_chunk_lines' = << >>
  /\ current_chunk_size' = 0
  /\ li' = li + 1
  /\ UNCHANGED << webhook_url, svars, pc, content, lines, i, success_count,
                  total_chunks, ret, forced, sent, attempts, nDelivered,
                  anyRaised, slept, bvars >>

\* the line does not fit any more: save the current chunk, open a new one
FlushChunk ==
  /\ pc = "split"
  /\ li <= Len(lines)
  /\ ~(line_size(lines[li]) > MAX_BYTE_LENGTH)
  /\ current_chunk_size + line_size(lines[li]) > MAX_BYTE_LENGTH
  /\ chunks' = Append(chunks, Join(current_chunk_lines))
  /\ origin' = Append(origin, LinesOrigin(li, current_chunk_lines))
  /\ current_chunk_lines' = << lines[li] >>
  /\ current_chunk_size' = line_size(lines[li])
  /\ li' = li + 1
  /\ UNCHANGED << webhook_url, svars, pc, content, lines, i, success_count,
                  total_chunks, ret, forced, sent, attempts, nDelivered,
                  anyRaised, slept, bvars >>

\* the line added without adding its size to current_chunk_size
AppendLine_SizeNotAdded ==
  /\ pc = "split"
  /\ li <= Len(lines)
  /\ ~(line_size(lines[li]) > MAX_BYTE_LENGTH)
  /\ ~(current_chunk_size + line_size(lines[li]) > MAX_BYTE_LENGTH)
  /\ current_chunk_lines' = Append(current_chunk_lines, lines[li])
  /\ current_chunk_size' = current_chunk_size
  /\ li' = li + 1
  /\ UNCHANGED << webhook_url, svars, pc, content, lines, chunks, origin, i,
                  success_count, total_chunks, ret, forced, sent, attempts,
                  nDelivered, anyRaised, slept, bvars >>

\* the line fits: add it to the current chunk
AppendLine ==
  /\ pc = "split"
  /\ li <= Len(lines)
  /\ ~(line_size(lines[li]) > MAX_BYTE_LENGTH)
  /\ ~(current_chunk_size + line_size(lines[li]) > MAX_BYTE_LENGTH)
  /\ current_chunk_lines' = Append(current_chunk_lines, lines[li])
  /\ current_chunk_size' = current_chunk_size + line_size(lines[li])
  /\ li' = li + 1
  /\ UNCHANGED << webhook_url, svars, pc, content, lines, chunks, origin, i,
                  success_count,
                  total_chunks, ret, forced, sent, attempts, nDelivered,
                  anyRaised, slept, bvars >>

\* after the last line: add the last chunk, then set up the send loop
EndSplit ==
  /\ pc = "split"
  /\ li > Len(lines)
  /\ chunks' = (IF current_chunk_lines # << >>
                THEN Append(chunks, Join(current_chunk_lines))
                ELSE chunks)
  /\ origin' = (IF current_chunk_lines # << >>
                THEN Append(origin, LinesOrigin(li, current_chunk_lines))
                ELSE origin)
  /\ success_count' = 0
  /\ total_chunks' = Len(chunks')
  /\ i' = 0
  /\ pc' = "send"
  /\ UNCHANGED << webhook_url, svars, content, lines, li, current_chunk_lines,
                  current_chunk_size, ret, forced, sent, attempts, nDelivered,
                  anyRaised, slept, bvars >>

\* one iteration of the send loop up to the end of its try block: paginate
\* the chunk, post it, count a success; an exception skips to the next chunk
SendChunk ==
  /\ pc = "send"
  /\ i < total_chunks
  /\ \E resp \in Responses :
       LET r == SendSingleMessage(resp) IN
         /\ sent' = Append(sent, Paginate(i, total_chunks, chunks[i + 1]))
         /\ attempts' = Append(attempts, i + 1)
         /\ nDelivered' = nDelivered + (IF IsDelivered(resp) THEN 1 ELSE 0)
         /\ anyRaised' = (anyRaised \/ r = "Raise")
         /\ success_count' = success_count + (IF r = "True" THEN 1 ELSE 0)
         /\ pc' = AfterChunkTry(r)
         /\ i' = (IF AfterChunkTry(r) = "send" THEN i + 1 ELSE i)
  /\ slept' = FALSE
  /\ UNCHANGED << webhook_url, svars, content, lines, li, chunks, origin,
                  current_chunk_lines,
                  current_chunk_size, total_chunks, ret, forced, bvars >>

\* time.sleep(0.5) at the end of the try block, then the next iteration
Sleep ==
  /\ pc = "sleep"
  /\ slept' = TRUE
  /\ i' = i + 1
  /\ pc' = "send"
  /\ UNCHANGED << webhook_url, svars, content, lines, li, chunks, origin,
                  current_chunk_lines,
                  current_chunk_size, success_count, total_chunks, ret, forced,
                  sent, attempts, nDelivered, anyRaised, bvars >>

\* return success_count == total_chunks
ReturnChunked ==
  /\ pc = "send"
  /\ ~(i < total_chunks)
  /\ ret' = (IF success_count = total_chunks THEN "True" ELSE "False")
  /\ pc' = "returned"
  /\ UNCHANGED << webhook_url, svars, content, lines, li, chunks, origin,
                  current_chunk_lines,
                  current_chunk_size, i, success_count, total_chunks, forced,
                  sent, attempts, nDelivered, anyRaised, slept, bvars >>

(***************************************************************************)
(* send_batch_notifications                                                *)
(***************************************************************************)
\* Python's None, as the value a function without return statement gives
None == [kind |-> "None"]

\* a caller calls send_batch_notifications(results)
CallBatch ==
  /\ pc = "idle" /\ bpc = "idle"
  /\ \E rs \in ResultLists : results' = rs
  /\ bpc' = "entry"
  /\ UNCHANGED << webhook_url, svars, wvars, sorted_results, bi, batchRet,
                  dispatched, callRets, bslept >>

\* if not self.is_available(): return
BatchNotAvailable ==
  /\ bpc = "entry"
  /\ ~is_available
  /\ bpc' = "done"
  /\ batchRet' = None
  /\ UNCHANGED << webhook_url, svars, wvars, results, sorted_results, bi,
                  dispatched, callRets, bslept >>

\* self.send_to_wechat(self.format_wechat_summary(results))
BatchSendSummary ==
  /\ bpc = "entry"
  /\ is_available
  /\ Enter(format_wechat_summary(results))
  /\ dispatched' = Append(dispatched,
                          [text |-> format_wechat_summary(results),
                           paced |-> bslept])
  /\ bslept' = FALSE
  /\ bpc' = "summary"
  /\ UNCHANGED << webhook_url, svars, results, sorted_results, bi, batchRet,
                  callRets >>

\* the summary call returned, its value is dropped; sort the results
BatchSort ==
  /\ bpc = "summary"
  /\ pc = "returned"
  /\ callRets' = Append(callRets, ret)
  /\ sorted_results' = SortedByScore(results)
  /\ bi' = 0
  /\ bpc' = "loop"
  /\ pc' = "idle"
  /\ UNCHANGED << webhook_url, svars, content, lines, li, chunks, origin,
                  current_chunk_lines,
                  current_chunk_size, i, success_count, total_chunks, ret,
                  forced, sent, attempts, nDelivered, anyRaised, slept,
                  results, batchRet, dispatched, bslept >>

\* time.sleep(1) at the top of the loop body
BatchSleep ==
  /\ bpc = "loop"
  /\ bi < Len(sorted_results)
  /\ bslept' = TRUE
  /\ bpc' = "format"
  /\ UNCHANGED << webhook_url, svars, wvars, results, sorted_results, bi, batchRet,
                  dispatched, callRets >>

\* self.send_to_wechat(self.format_wechat_stock_msg(result))
BatchSendStock ==
  /\ bpc = "format"
  /\ Enter(format_wechat_stock_msg(sorted_results[bi + 1]))
  /\ dispatched' =
       Append(dispatched,
              [text |-> format_wechat_stock_msg(sorted_results[bi + 1]),
               paced |-> bslept])
  /\ bslept' = FALSE
  /\ bpc' = "stock"
  /\ UNCHANGED << webhook_url, svars, results, sorted_results, bi, batchRet,
                  callRets >>

\* the call for a stock returned, its value is dropped; next stock
BatchNext ==
  /\ bpc = "stock"
  /\ pc = "returned"
  /\ callRets' = Append(callRets, ret)
  /\ bi' = bi + 1
  /\ bpc' = "loop"
  /\ pc' = "idle"
  /\ UNCHANGED << webhook_url, svars, content, lines, li, chunks, origin,
                  current_chunk_lines,
                  current_chunk_size, i, success_count, total_chunks, ret,
                  forced, sent, attempts, nDelivered, anyRaised, slept,
                  results, sorted_results, batchRet, dispatched, bslept >>

\* the loop is over: the function ends without a return statement
BatchReturn ==
  /\ bpc = "loop"
  /\ ~(bi < Len(sorted_results))
  /\ bpc' = "done"
  /\ batchRet' = None
  /\ UNCHANGED << webhook_url, svars, wvars, results, sorted_results, bi,
                  dispatched, callRets, bslept >>

Next ==
  \/ CallSendToWechat
  \/ NotAvailable
  \/ SendWhole
  \/ BeginSplit
  \/ ForcedSlice
  \/ FlushChunk
  \/ AppendLine
  \/ EndSplit
  \/ SendChunk
  \/ Sleep
  \/ ReturnChunked
  \/ CallBatch
  \/ BatchNotAvailable
  \/ BatchSendSummary
  \/ BatchSort
  \/ BatchSleep
  \/ BatchSendStock
  \/ BatchNext
  \/ BatchReturn

Spec == Init /\ [][Next]_vars

(***************************************************************************)
(* _send_single_message called on its own                                  *)
(***************************************************************************)
\* one call of _send_single_message(c) and the answer of the webhook; with
\* no URL to post to, requests.post can only raise
CallSendSingleMessage ==
  /\ pc = "idle" /\ bpc = "idle"
  /\ single_ret = "None"
  /\ \E c \in Contents, resp \in Responses :
       /\ (~is_available => resp.exc)
       /\ posted' = c
       /\ response' = resp
       /\ single_ret' = SendSingleMessage(resp)
  /\ UNCHANGED << webhook_url, wvars, bvars >>

NextSingle == CallSendSingleMessage

SpecSingle == Init /\ [][NextSingle]_vars

(***************************************************************************)
(* Properties                                                              *)
(***************************************************************************)
\* the chunked path has set up its send loop
Chunked == total_chunks > 0

\* C1: as long as no line took the forced-slice branch, every segment the
\* line loop has emitted is at most MAX_BYTE_LENGTH bytes of UTF-8.
C1_SegmentsWithinBudget ==
  ~forced => \A k \in 1..Len(chunks) : ByteLen(chunks[k]) <= MAX_BYTE_LENGTH

\* a content split without forced slice, one segment one byte under the budget
C1_Witness ==
  /\ pc = "send"
  /\ ~forced
  /\ Len(chunks) >= 2
  /\ \E k \in 1..Len(chunks) : ByteLen(chunks[k]) = MAX_BYTE_LENGTH - 1

\* C2: when the forced-slice branch was not taken, the segments joined in
\* order with "\n" are the content: no line dropped, duplicated or reordered.
C2_JoinReproducesContent ==
  (Chunked /\ ~forced) => Join(chunks) = content

\* three lines or more packed in fewer segments, one of them several lines
C2_Witness ==
  /\ pc = "returned"
  /\ Chunked
  /\ ~forced
  /\ Len(chunks) >= 2
  /\ Len(lines) > Len(chunks)

\* the marker line of segment k of n, without its line break
MarkerText(k, n) ==
  Concat(Rep("(", 1),
         Concat(Str(k), Concat(Rep("/", 1), Concat(Str(n), Rep(")", 1)))))

\* C3: with N > 1 segments, the k-th message posted is the line "(k/N)"
\* followed by the k-th segment, and is at most 4096 bytes.
C3_MarkerAndHardLimit ==
  total_chunks > 1 =>
    \A k \in 1..Len(sent) :
      LET m == StrLen(MarkerText(k, total_chunks)) IN
        /\ Take(sent[k], m) = MarkerText(k, total_chunks)
        /\ Take(Drop(sent[k], m), 1) = Rep(NL, 1)
        /\ Drop(sent[k], m + 1) = chunks[k]
        /\ ByteLen(sent[k]) <= WECHAT_BYTE_LIMIT

\* all of ten or more segments posted, one message above the chunking budget
C3_Witness ==
  /\ pc = "returned"
  /\ total_chunks >= 10
  /\ Len(sent) = total_chunks
  /\ \E k \in 1..Len(sent) : ByteLen(sent[k]) > MAX_BYTE_LENGTH

\* C4: the posts of one call over N segments are segment 1, 2, ..., each
\* once, and the call returns only after all N, whatever the answers were.
C4_InOrderExactlyOnce ==
  Chunked =>
    /\ attempts = [k \in 1..Len(attempts) |-> k]
    /\ Len(attempts) <= total_chunks
    /\ (pc = "returned" => Len(attempts) = total_chunks)
    /\ (pc = "send" => Len(attempts) = i)
    /\ (pc = "sleep" => Len(attempts) = i + 1)

\* a call that returned after three or more posts, none of them delivered
C4_Witness ==
  /\ pc = "returned"
  /\ total_chunks >= 3
  /\ Len(attempts) = total_chunks
  /\ nDelivered = 0
  /\ ~anyRaised

\* C5 as claimed: send_to_wechat returns True exactly when every post it made
\* in the call was answered by status 200 with errcode 0.
C5_TrueIffEveryAttemptDelivered ==
  pc = "returned" => (ret = "True" <=> nDelivered = Len(attempts))

\* C5: with a webhook configured, send_to_wechat makes at least one post and
\* returns True exactly when every post was answered by status 200 with
\* errcode 0; without a webhook it makes no post and returns False.
C5_ConfiguredTrueIffDelivered ==
  pc = "returned" =>
    IF is_available
    THEN /\ Len(attempts) >= 1
         /\ ret = "True" <=> nDelivered = Len(attempts)
    ELSE attempts = << >> /\ ret = "False"

\* a chunked call whose posts were all delivered and that returned True
C5_Witness ==
  /\ pc = "returned"
  /\ is_available
  /\ total_chunks >= 2
  /\ nDelivered = total_chunks
  /\ ret = "True"

\* C6: an exception of the post or of the response parsing never leaves
\* send_to_wechat: every segment is still posted and the call returns False.
C6_ExceptionsContained ==
  /\ pc # "raised"
  /\ (pc = "returned" /\ anyRaised) =>
       /\ ret = "False"
       /\ nDelivered < Len(attempts)
       /\ Len(attempts) = (IF Chunked THEN total_chunks ELSE 1)

\* a chunked call where a post raised and all other segments were delivered
C6_Witness ==
  /\ pc = "returned"
  /\ anyRaised
  /\ total_chunks >= 3
  /\ Len(attempts) = total_chunks
  /\ nDelivered = total_chunks - 1
  /\ ret = "False"

\* number of entries of a sequence equal to v
RECURSIVE CountOf(_, _)
CountOf(seq, v) ==
  IF seq = << >> THEN 0
  ELSE (IF Head(seq) = v THEN 1 ELSE 0) + CountOf(Tail(seq), v)

\* C7 as claimed: send_batch_notifications returns an aggregate that counts
\* the delivered and the failed messages, with a verdict that is failure as
\* soon as one message was not delivered.
C7_BatchReturnsAggregate ==
  (bpc = "done" /\ is_available) =>
    /\ batchRet.kind = "BatchResult"
    /\ batchRet.delivered = CountOf(callRets, "True")
    /\ batchRet.failed = CountOf(callRets, "False")
    /\ batchRet.overallSuccess = (CountOf(callRets, "False") = 0)

\* the permutations of 1..n
Perms(n) == { f \in [1..n -> 1..n] : \A a, b \in 1..n : a # b => f[a] # f[b] }

\* out is inp in non-increasing sentiment_score order, ties in input order
StableDescending(inp, out) ==
  /\ Len(out) = Len(inp)
  /\ \E f \in Perms(Len(inp)) :
       /\ \A k \in 1..Len(inp) : out[k] = inp[f[k]]
       /\ \A j, k \in 1..Len(inp) :
            j < k =>
              \/ out[j].sentiment_score > out[k].sentiment_score
              \/ /\ out[j].sentiment_score = out[k].sentiment_score
                 /\ f[j] < f[k]

\* C8: with a webhook configured the batch dispatches the summary first,
\* then one message per result in non-increasing sentiment_score order (ties
\* in input order), each after a pacing wait, and all 1 + len(results)
\* messages whatever the earlier calls returned.
C8_SummaryThenSortedPaced ==
  /\ Len(dispatched) <= 1 + Len(results)
  /\ Len(dispatched) >= 1 =>
       dispatched[1].text = format_wechat_summary(results)
  /\ Len(dispatched) >= 2 =>
       /\ StableDescending(results, sorted_results)
       /\ \A k \in 2..Len(dispatched) :
            /\ dispatched[k].text =
                 format_wechat_stock_msg(sorted_results[k - 1])
            /\ dispatched[k].paced
  /\ Len(callRets) <= Len(dispatched)
  /\ (bpc = "done" /\ is_available) =>
       /\ Len(dispatched) = 1 + Len(results)
       /\ Len(callRets) = Len(dispatched)

\* a finished batch whose results came in rising score order and whose
\* summary and first stock message failed
C8_Witness ==
  /\ bpc = "done"
  /\ Len(results) >= 2
  /\ results[1].sentiment_score < results[2].sentiment_score
  /\ Len(dispatched) = 1 + Len(results)
  /\ callRets[1] = "False"
  /\ callRets[2] = "False"

\* C9 as claimed: before the post of segment i+1 a pacing wait has run since
\* the post of segment i, whatever the outcome of that post.
C9_PacedBetweenAttempts ==
  (pc = "send" /\ 1 <= i /\ i < total_chunks) => slept

\* C10 as claimed: a content of exactly MAX_BYTE_LENGTH bytes is one segment
\* and one post, a content of one byte more is exactly two.
C10_ExactlyTwoOneByteOver ==
  (pc = "returned" /\ is_available) =>
    /\ ByteLen(content) = MAX_BYTE_LENGTH =>
         Len(attempts) = 1 /\ sent = << content >>
    /\ ByteLen(content) = MAX_BYTE_LENGTH + 1 =>
         Len(chunks) = 2 /\ Len(attempts) = 2

\* C10: with a webhook configured, a content of exactly MAX_BYTE_LENGTH bytes
\* is posted whole in one post, and a content of one byte more is split in at
\* least two segments, each posted once.
C10_AtLeastTwoOneByteOver ==
  (pc = "returned" /\ is_available) =>
    /\ ByteLen(content) = MAX_BYTE_LENGTH =>
         Len(attempts) = 1 /\ sent = << content >>
    /\ ByteLen(content) = MAX_BYTE_LENGTH + 1 =>
         Len(chunks) >= 2 /\ Len(attempts) = Len(chunks)

\* a content one byte over the budget, no oversized line, three segments
C10_Witness ==
  /\ pc = "returned"
  /\ is_available
  /\ ByteLen(content) = MAX_BYTE_LENGTH + 1
  /\ ~forced
  /\ Len(chunks) = 3
  /\ Len(attempts) = 3

\* C11 as claimed: with a webhook configured, send_to_wechat of the empty
\* content makes no post and does not report a failure.
C11_EmptyContentIsNoOp ==
  (pc = "returned" /\ is_available /\ content = << >>) =>
    /\ attempts = << >>
    /\ sent = << >>
    /\ ret # "False"

\* the message starts with the opening bracket of a pagination marker
StartsWithMarker(msg) == msg # << >> /\ msg[1].c = "("

C13_DeliveredIff2xxAndErrcode0 ==
  single_ret # "None" =>
    (single_ret = "True" <=>
       /\ ~response.exc
       /\ response.status \in 200..299
       /\ response.body = "{errcode:0}")

\* C14 as claimed: whatever the content, forced slices included, the segments
\* joined in order with "\n" are the content.
C14_JoinReproducesAnyContent ==
  Chunked => Join(chunks) = content

\* the segments put together again: a slice that continues a line follows the
\* slice before it directly, every other segment follows a line break
RECURSIVE Rejoin(_, _)
Rejoin(segs, orig) ==
  IF segs = << >> THEN << >>
  ELSE IF Len(segs) = 1 THEN segs[1]
  ELSE LET n == Len(segs)
           front == Rejoin(SubSeq(segs, 1, n - 1), SubSeq(orig, 1, n - 1))
       IN IF orig[n].slice /\ orig[n].j > 0
          THEN Concat(front, segs[n])
          ELSE Concat(Concat(front, Rep(NL, 1)), segs[n])

\* C14: whatever the content, the segments in order are the content once the
\* slices of one oversized line are put end to end and all other segments
\* are joined with "\n"; nothing is lost, and a join with "\n" everywhere
\* differs from the content only by the line breaks between such slices.
C14_RejoinReproducesContent ==
  Chunked =>
    /\ Len(origin) = Len(chunks)
    /\ Rejoin(chunks, origin) = content
    /\ (~forced => Join(chunks) = content)
    /\ (forced /\ (\E k \in 1..Len(origin) : origin[k].j > 0)) =>
         /\ Join(chunks) # content
         /\ StrLen(Join(chunks)) =
              StrLen(content)
                + Cardinality({ k \in 1..Len(origin) : origin[k].j > 0 })

\* a segment of whole lines, then a line cut in slices, then a last segment
C14_Witness ==
  /\ pc = "returned"
  /\ forced
  /\ Len(chunks) >= 4
  /\ ~origin[1].slice
  /\ origin[2].slice
  /\ ~origin[Len(origin)].slice

\* message k of n is the marker line "(k/n)" followed by the segment
MarkedAs(msg, k, n, seg) ==
  msg = Concat(MarkerText(k, n), Concat(Rep(NL, 1), seg))

\* C15 as claimed: a content of 5000 bytes gives segments of at most 2000
\* bytes whose join is the content, and exactly 3 messages marked "(1/3)",
\* "(2/3)", "(3/3)", wherever its line breaks are.
C15_Exactly3For5000Bytes ==
  (pc = "returned" /\ is_available /\ ByteLen(content) = 5000) =>
    /\ \A k \in 1..Len(chunks) : ByteLen(chunks[k]) <= MAX_BYTE_LENGTH
    /\ Join(chunks) = content
    /\ Len(chunks) = 3
    /\ Len(sent) = 3
    /\ \A k \in 1..Len(sent) : MarkedAs(sent[k], k, 3, chunks[k])

\* C15: with a webhook configured, a content of 5000 bytes gives N >= 3
\* segments of at most 2000 bytes that put together are the content, and N
\* messages, the k-th marked "(k/N)"; N depends on the line breaks.
C15_AtLeast3For5000Bytes ==
  (pc = "returned" /\ is_available /\ ByteLen(content) = 5000) =>
    /\ \A k \in 1..Len(chunks) : ByteLen(chunks[k]) <= MAX_BYTE_LENGTH
    /\ Rejoin(chunks, origin) = content
    /\ (~forced => Join(chunks) = content)
    /\ Len(chunks) >= 3
    /\ Len(sent) = Len(chunks)
    /\ \A k \in 1..Len(sent) : MarkedAs(sent[k], k, Len(chunks), chunks[k])

\* 5000 bytes in lines of at most 1999 bytes, sent as "(1/3)" .. "(3/3)"
C15_Witness ==
  /\ pc = "returned"
  /\ is_available
  /\ ByteLen(content) = 5000
  /\ ~forced
  /\ Len(sent) = 3
  /\ MarkedAs(sent[3], 3, 3, chunks[3])

C17_SlicedOnlyIfLineOverBudget ==
  \A l \in 1..Len(lines) :
    l < li =>
      ((\E k \in 1..Len(origin) : origin[k].slice /\ origin[k].first = l)
         <=> ByteLen(lines[l]) > MAX_BYTE_LENGTH)

\* C18: every segment with its marker "(k/N)" in front is at most 4096
\* bytes, so no message is truncated: each message posted by the chunked path
\* is the marker line and then the whole segment, without truncation notice.
C18_NeverTruncated ==
  /\ \A k \in 1..Len(chunks) :
       ByteLen(MarkerText(k, Len(chunks))) + 1 + ByteLen(chunks[k])
         <= WECHAT_BYTE_LIMIT
  /\ Chunked =>
       \A k \in 1..Len(sent) :
         /\ MarkedAs(sent[k], k, total_chunks, chunks[k])
         /\ StrLen(sent[k]) =
              StrLen(MarkerText(k, total_chunks)) + 1 + StrLen(chunks[k])
         /\ Drop(sent[k], StrLen(sent[k]) - StrLen(TruncationNotice))
              # TruncationNotice

\* a slice of exactly MAX_BYTE_LENGTH bytes posted whole behind its marker
C18_Witness ==
  /\ pc = "returned"
  /\ Chunked
  /\ \E k \in 1..Len(sent) :
       /\ ByteLen(chunks[k]) = MAX_BYTE_LENGTH
       /\ ByteLen(sent[k]) = MAX_BYTE_LENGTH + 6

C20_NoEmptySegment ==
  \A k \in 1..Len(chunks) : chunks[k] # << >>

====
